---- MODULE Spec2Model ----
(***************************************************************************)
(* Model of the bulk-upload pipeline of the examination portal:            *)
(*   - services/firestore.ts      the pooled variant (processInPool)       *)
(*   - unnamed/part_000           the sequential variant (for .. of loop)  *)
(* Strings are sequences of one-character strings, documents are records,  *)
(* a collection is a function from document id to document.                *)
(***************************************************************************)
EXTENDS Integers, Sequences, FiniteSets, TLC

\* ------------------------------------------------------------------ bounds
\* Longest input list of a run.
MaxRecords == 5
\* BATCH_SIZE of the pooled uploads (500), scaled down.
BATCH_SIZE == 2
\* BATCH_SIZE of the sequential variant (300), scaled down.
SEQ_BATCH_SIZE == 2
\* CONCURRENCY_LIMIT of the pooled uploads (25), scaled down.
CONCURRENCY_LIMIT == 2
\* Chunker inputs: longest array and largest chunk size tried.
SEQ_DELETE_BATCH_SIZE == 3
MaxLen == 5
MaxSize == 3

Min(a, b) == IF a < b THEN a ELSE b

\* ----------------------------------------------------------------- strings
\* Characters String.prototype.trim removes (white space).
WhiteSpace == {" "}

\* The character class of sanitizeDocId: . / # $ [ ] and backslash.
ForbiddenChars == {".", "/", "#", "$", "[", "]", "\\"}

RECURSIVE trimStart(_)
trimStart(s) ==
    IF s # <<>> /\ Head(s) \in WhiteSpace THEN trimStart(Tail(s)) ELSE s

RECURSIVE trimEnd(_)
trimEnd(s) ==
    IF s # <<>> /\ s[Len(s)] \in WhiteSpace
    THEN trimEnd(SubSeq(s, 1, Len(s) - 1))
    ELSE s

trim(s) == trimEnd(trimStart(s))

\* id.replace(/[.\/#$\[\]\\]/g, '_')
replaceForbidden(id) ==
    [i \in 1..Len(id) |-> IF id[i] \in ForbiddenChars THEN "_" ELSE id[i]]

\* Mutant: trims but leaves the forbidden characters in place.
sanitizeNoReplace(id) == trim(id)

\* Mutant: replaces the forbidden characters but does not trim.
sanitizeNoTrim(id) == replaceForbidden(id)

sanitizeDocId(id) == trim(replaceForbidden(id))

\* ----------------------------------------------------------------- chunker
\* The while loop of chunkArray: push array.slice(index, size + index),
\* then index += size.
RECURSIVE chunkLoop(_, _, _, _)
chunkLoop(array, size, index, chunked_arr) ==
    IF index < Len(array)
    THEN chunkLoop(array, size, index + size,
                   Append(chunked_arr,
                          SubSeq(array, index + 1, Min(size + index, Len(array)))))
    ELSE chunked_arr

\* Mutant: the slice is one element short (slice(index, size + index - 1)).
chunkArrayShort(array, size) ==
    LET RECURSIVE loop(_, _)
        loop(index, acc) ==
            IF index < Len(array)
            THEN loop(index + size,
                      Append(acc, SubSeq(array, index + 1,
                                         Min(size + index - 1, Len(array)))))
            ELSE acc
    IN  loop(0, <<>>)

\* Mutant: no partition, the whole array is the one chunk.
chunkArrayWhole(array, size) == IF array = <<>> THEN <<>> ELSE <<array>>

chunkArray(array, size) == chunkLoop(array, size, 0, <<>>)

\* In-order concatenation of a sequence of sequences.
RECURSIVE Concat(_)
Concat(ss) == IF ss = <<>> THEN <<>> ELSE Head(ss) \o Concat(Tail(ss))

\* ----------------------------------------------------------------- records
\* The three batch writers and the field that holds a record's identity key.
Ops == {"master", "addresses", "restore"}

\* Raw identity keys of the input rows: empty, blank, one with a forbidden
\* character, the sanitized form of that one padded with a blank, and a
\* second key with a leading blank.
RawKeys == << <<>>, <<" ", " ">>, <<"A", "/", "B">>, <<"A", "_", "B", " ">>,
              <<" ", "C">> >>

\* A key choice of 0 is a row without the field (undefined in the source).
\* Seat numbers take every choice; college codes are blank, dirty or padded;
\* restored ids are missing, empty or present.
KeyChoices(o) ==
    IF o = "master" THEN {0, 1, 2, 3, 4}
    ELSE IF o = "addresses" THEN {2, 3, 4}
    ELSE {0, 1, 3}

\* Row number i of the input: idx stands for the rest of the row's data.
MkRecord(o, i, kc) ==
    IF kc = 0 THEN [idx |-> i]
    ELSE IF o = "master" THEN [idx |-> i, seatNo |-> RawKeys[kc]]
    ELSE IF o = "addresses" THEN [idx |-> i, collegeCode |-> RawKeys[kc]]
    ELSE [idx |-> i, id |-> RawKeys[kc]]

\* String(record.seatNo || ''), String(record.collegeCode || '')
rawSeatNo(record) ==
    IF "seatNo" \in DOMAIN record THEN record.seatNo ELSE <<>>
rawCode(record) ==
    IF "collegeCode" \in DOMAIN record THEN record.collegeCode ELSE <<>>

\* crypto.randomUUID(): a fresh id, distinct for every row and from RawKeys.
DigitChars == <<"1", "2", "3", "4", "5", "6", "7", "8", "9">>
randomUUID(record) == <<"u", "u", "i", "d", "-", DigitChars[record.idx]>>

\* if (!record.id) record.id = crypto.randomUUID()
restoreId(record) ==
    IF "id" \in DOMAIN record /\ record.id # <<>> THEN record.id
    ELSE randomUUID(record)

\* JSON.parse(JSON.stringify(data)): drops undefined fields; the rows of the
\* model carry no undefined field (a missing field is absent from the record).
cleanData(data) == data

\* ------------------------------------------------- the batch of one chunk
\* One batch.set(doc(collectionRef, id), data) of a write batch; merge is
\* the { merge: true } option of the sequential address upload.
SetOp(docId, data, merge) == [id |-> docId, data |-> data, merge |-> merge]

\* delBatch.delete(d.ref) of a write batch.
DeleteOp(ref) == [id |-> ref, delete |-> TRUE]

\* chunk.forEach((d) => delBatch.delete(d.ref)) of archiveCurrentSession.
deleteBatchOps(chunk) == [i \in DOMAIN chunk |-> DeleteOp(chunk[i].ref)]

\* chunk.forEach of uploadMasterRecordsBatch / uploadAddressesBatch /
\* restoreBackupBatch (pooled variant): the operations put in the batch.
\* The body of the forEach for one row adds one set to the batch, or none.
poolRowOps(o, record) ==
    IF o = "restore"
    THEN <<SetOp(restoreId(record),
                 [f \in DOMAIN record \cup {"id"} |->
                     IF f = "id" THEN restoreId(record) ELSE record[f]],
                 FALSE)>>
    ELSE LET safeId == sanitizeDocId(IF o = "master" THEN rawSeatNo(record)
                                                     ELSE rawCode(record))
         IN  IF Len(safeId) > 0
             THEN <<SetOp(safeId, record, FALSE)>>
             ELSE <<>>

\* The rows are taken in order; the chunk is halved so that a chunk of 500
\* rows is evaluated at a depth of 9.
RECURSIVE poolBatchOps(_, _)
poolBatchOps(o, chunk) ==
    IF chunk = <<>> THEN <<>>
    ELSE IF o = "archive" THEN deleteBatchOps(chunk)
    ELSE IF Len(chunk) = 1 THEN poolRowOps(o, chunk[1])
    ELSE LET h == Len(chunk) \div 2
         IN  poolBatchOps(o, SubSeq(chunk, 1, h))
                 \o poolBatchOps(o, SubSeq(chunk, h + 1, Len(chunk)))

\* The same loop of the sequential variant (data through cleanData).
RECURSIVE seqBatchOps(_, _)
seqBatchOps(o, chunk) ==
    IF chunk = <<>> THEN <<>>
    ELSE LET record == Head(chunk)
             rest == seqBatchOps(o, Tail(chunk))
         IN  IF o = "restore"
             THEN <<SetOp(restoreId(record),
                          cleanData([f \in DOMAIN record \cup {"id"} |->
                              IF f = "id" THEN restoreId(record) ELSE record[f]]),
                          FALSE)>>
                  \o rest
             ELSE LET safeId == sanitizeDocId(IF o = "master" THEN rawSeatNo(record)
                                                              ELSE rawCode(record))
                  IN  IF Len(safeId) > 0
                      THEN <<SetOp(safeId, cleanData(record), o = "addresses")>>
                           \o rest
                      ELSE rest

\* Mutant: commits whatever the batch holds, an empty batch included.
poolCommitsAlways(o, chunk) == TRUE

\* if (batchHasOps) await batch.commit();  restoreBackupBatch and
\* processDeleteChunk commit always.
poolCommits(o, chunk) ==
    o \in {"restore", "archive"} \/ Len(poolBatchOps(o, chunk)) > 0

\* if (operationCount > 0) await batch.commit();
seqCommits(o, chunk) == Len(seqBatchOps(o, chunk)) > 0

\* Mutant: a commit replaces the collection by the documents of its batch.
RECURSIVE applyBatchReplacing(_, _)
applyBatchReplacing(coll, ops) ==
    IF ops = <<>> THEN [k \in {} |-> 0]
    ELSE LET rest == applyBatchReplacing(coll, Tail(ops))
         IN  [k \in DOMAIN rest \cup {Head(ops).id} |->
                 IF k \in DOMAIN rest THEN rest[k] ELSE Head(ops).data]

\* The document a set leaves: the data, laid over the stored fields when
\* the set merges into an existing document.
setResult(coll, o) ==
    IF o.merge /\ o.id \in DOMAIN coll
    THEN [f \in DOMAIN coll[o.id] \cup DOMAIN o.data |->
             IF f \in DOMAIN o.data THEN o.data[f] ELSE coll[o.id][f]]
    ELSE o.data

\* One operation of a batch at the backend: a delete or a set.
applyOp(coll, o) ==
    IF "delete" \in DOMAIN o
    THEN [k \in DOMAIN coll \ {o.id} |-> coll[k]]
    ELSE (o.id :> setResult(coll, o)) @@ coll

\* batch.commit() at the backend: the sets and deletes applied in order, as
\* one unit: the first half of the operations, then the second, so that 500
\* operations are evaluated at a depth of 9.  (The comparison with coll has
\* the first half evaluated before the second is entered.)
RECURSIVE applyBatch(_, _)
applyBatch(coll, ops) ==
    IF ops = <<>> THEN coll
    ELSE IF Len(ops) = 1 THEN applyOp(coll, ops[1])
    ELSE LET h == Len(ops) \div 2
             half == applyBatch(coll, SubSeq(ops, 1, h))
         IN  IF half = coll
             THEN applyBatch(coll, SubSeq(ops, h + 1, Len(ops)))
             ELSE applyBatch(half, SubSeq(ops, h + 1, Len(ops)))

\* The empty collection.
EmptyColl == [k \in {} |-> 0]

\* ------------------------------------------------------------------- state
VARIABLES
    variant,        \* "pool" (services/firestore.ts) or "seq" (unnamed/part_000)
    op,             \* which batch writer runs
    records,        \* the input list of the run
    runState,       \* "Idle", "Running", "Completed" or "Failed": the run's promise
    runError,       \* chunk whose error the run rejected with (0: none)
    chunks,         \* chunkArray(records, BATCH_SIZE)
    queue,          \* processInPool's queue: indices into chunks, in order
    workers,        \* one entry per pool worker: [pc, item]
    seqPc,          \* sequential loop: "none", "commit" or "timeout"
    seqIdx,         \* sequential loop: index of the chunk of the iteration
    processedCount, \* let processedCount
    store,          \* the target collection: document id -> document
    sinkCalls,      \* history: the (processed, total) pairs passed to onProgress
    invoked,        \* history: per chunk, how often processChunk was called
    commits,        \* history: chunks whose batch.commit() was issued, in order
    committed,      \* history: chunks whose commit resolved
    rejected,       \* history: chunks whose commit rejected, in order
    cArray, cSize, cResult, cCalled,  \* a stand-alone call of chunkArray
    archPc,         \* archiveCurrentSession: the await it last reached ("none",
                    \* "save", "read", "delete" or "config")
    archived,       \* whether the archive document is stored
    examName,       \* the current exam name of the configuration: "old" or "new"
    fetchKind,      \* the collection a fetch reads ("none": no fetch called)
    fetchPc,        \* "idle", "await" (getDocs pending), then "ok", "caught" or "thrown"
    fetchResult,    \* the list the fetch resolved with
    elapsedAt,      \* Date.now() - startTime, in ms, read by the i-th call of the
                    \* progress callback of the run
    localStudents,  \* App: the students state (what the lists and forms show)
    archiveData,    \* the students list of the archive passed to archiveCurrentSession
    appArchives,    \* App: the archives state, each session by its students list
    viewOnly,       \* history: the user confirmed loading an archive as view only
    appWrites,      \* history: the writes the App's handlers issued, in order
    listener,       \* the onSnapshot listener of the students: whether it is
                    \* open, and the collection it last delivered
    dual            \* two overlapping pooled runs, each with its own state

vars == <<variant, op, records, runState, runError, chunks, queue, workers,
          seqPc, seqIdx, processedCount, store, sinkCalls, invoked, commits,
          committed, rejected, cArray, cSize, cResult, cCalled, archPc,
          archived, examName, fetchKind, fetchPc, fetchResult, elapsedAt,
          localStudents, archiveData, appArchives, viewOnly, appWrites,
          listener, dual>>

panelVars == <<elapsedAt>>
appVars == <<localStudents, archiveData, appArchives, viewOnly, appWrites,
            listener>>
dualVars == <<dual>>

archVars == <<archPc, archived, examName>>

readVars == <<fetchKind, fetchPc, fetchResult>>
chunkVars == <<cArray, cSize, cResult, cCalled>>
runVars == <<variant, op, records, runState, runError, chunks, queue, workers,
             seqPc, seqIdx, processedCount, store, sinkCalls, invoked, commits,
             committed, rejected, archVars>>

\* Every input list of at most MaxRecords rows of one writer.
InputLists(o) ==
    UNION { { [i \in 1..n |-> MkRecord(o, i, ks[i])] : ks \in [1..n -> KeyChoices(o)] }
            : n \in 0..MaxRecords }

\* No run has been started.
NoRun(v) ==
    /\ variant = v
    /\ runState = "Idle"
    /\ runError = 0
    /\ chunks = <<>>
    /\ queue = <<>>
    /\ workers = <<>>
    /\ seqPc = "none"
    /\ seqIdx = 0
    /\ processedCount = 0
    /\ sinkCalls = <<>>
    /\ invoked = <<>>
    /\ commits = <<>>
    /\ committed = {}
    /\ rejected = <<>>
    /\ archPc = "none"
    /\ archived = FALSE
    /\ examName = "old"

\* No run has been started and the target collection is empty.
IdleRun(v) == NoRun(v) /\ store = EmptyColl

\* No fetch has been called.
NoFetch ==
    /\ fetchKind = "none"
    /\ fetchPc = "idle"
    /\ fetchResult = <<>>

InitRun(v) ==
    /\ op \in Ops
    /\ records \in InputLists(op)
    /\ IdleRun(v)

\* No progress callback has a clock to read.
NoPanel == elapsedAt = <<>>

\* The App holds no student and no archive, and has issued no write.
NoApp ==
    /\ localStudents = <<>>
    /\ archiveData = <<>>
    /\ appArchives = <<>>
    /\ viewOnly = FALSE
    /\ appWrites = <<>>
    /\ listener = [open |-> FALSE, first |-> FALSE, last |-> EmptyColl]

\* No pair of overlapping runs.
NoDual == dual = <<>>

InitChunkIdle ==
    /\ NoFetch
    /\ NoPanel
    /\ NoApp
    /\ NoDual
    /\ cArray = <<>>
    /\ cSize = 1
    /\ cResult = <<>>
    /\ cCalled = FALSE

\* ------------------------------------------------- pooled variant: workers
\* The part of the run a worker's step reads and writes.
PoolState ==
    [queue |-> queue, workers |-> workers, processedCount |-> processedCount,
     sinkCalls |-> sinkCalls, invoked |-> invoked, commits |-> commits]

\* Mutant: counts a full batch for every chunk, the short last one included.
poolProgressFullBatch(st, c) ==
    LET n == st.processedCount + BATCH_SIZE
    IN  [st EXCEPT !.processedCount = n,
                   !.sinkCalls = Append(@, <<IF op = "restore" THEN n
                                              ELSE Min(n, Len(records)),
                                             Len(records)>>)]

\* Mutant: counts the operations of the batch, not the rows of the chunk.
poolProgressEligibleOnly(st, c) ==
    LET n == st.processedCount + Len(poolBatchOps(op, chunks'[c]))
    IN  [st EXCEPT !.processedCount = n,
                   !.sinkCalls = Append(@, <<IF op = "restore" THEN n
                                              ELSE Min(n, Len(records)),
                                             Len(records)>>)]

\* Mutant: reports the size of the chunk just written, not the running total.
poolProgressChunkOnly(st, c) ==
    LET n == st.processedCount + Len(chunks'[c])
    IN  [st EXCEPT !.processedCount = n,
                   !.sinkCalls = Append(@, <<Len(chunks'[c]), Len(records)>>)]

\* processedCount += chunk.length; onProgress(Math.min(processedCount,
\* records.length), records.length)   (restore passes processedCount as is)
poolProgress(st, c) ==
    LET n == st.processedCount + Len(chunks'[c])
    IN  [st EXCEPT !.processedCount = n,
                   !.sinkCalls = Append(@, <<IF op = "restore" THEN n
                                              ELSE Min(n, Len(records)),
                                             Len(records)>>)]

\* Mutant: the worker takes the last chunk of the queue (pop, not shift).
DequeueLast(q) == [item |-> q[Len(q)], rest |-> SubSeq(q, 1, Len(q) - 1)]

\* Mutant: the worker reads the head of the queue without removing it.
DequeuePeek(q) == [item |-> Head(q), rest |-> q]

\* const item = queue.shift()
Dequeue(q) == [item |-> Head(q), rest |-> Tail(q)]

\* Mutant: a worker that finds the queue empty waits for more work instead
\* of returning (while (true) without an exit).
workerTurnSpin(st, w) ==
    IF st.queue = <<>>
    THEN [st EXCEPT !.workers[w] = [pc |-> "resume", item |-> 0]]
    ELSE LET d == Dequeue(st.queue)
             c == d.item
             st1 == [st EXCEPT !.queue = d.rest, !.invoked[c] = @ + 1]
         IN  IF poolCommits(op, chunks'[c])
             THEN [st1 EXCEPT !.workers[w] = [pc |-> "commit", item |-> c],
                              !.commits = Append(@, c)]
             ELSE [poolProgress(st1, c) EXCEPT
                        !.workers[w] = [pc |-> "resume", item |-> c]]

\* One turn of a worker, from the test of its while loop to its next await:
\*   while (queue.length > 0) { const item = queue.shift();
\*                              if (item) await processItem(item); }
\* processItem runs processChunk up to its await of batch.commit(); a chunk
\* without operations skips the commit, reports progress and returns, and the
\* worker awaits the resolved promise ("resume").  A chunk is a non-empty
\* array, so if (item) is always taken.
workerTurn(st, w) ==
    IF st.queue = <<>>
    THEN [st EXCEPT !.workers[w] = [pc |-> "done", item |-> 0]]
    ELSE LET d == Dequeue(st.queue)
             c == d.item
             st1 == [st EXCEPT !.queue = d.rest, !.invoked[c] = @ + 1]
         IN  IF poolCommits(op, chunks'[c])
             THEN [st1 EXCEPT !.workers[w] = [pc |-> "commit", item |-> c],
                              !.commits = Append(@, c)]
             ELSE [poolProgress(st1, c) EXCEPT
                        !.workers[w] = [pc |-> "resume", item |-> c]]

\* Mutant: spawns concurrency workers whatever the number of items.
workerCountUnclamped(concurrency, items) == concurrency

\* const workerCount = Math.min(concurrency, items.length)
workerCount(concurrency, items) == Min(concurrency, Len(items))

\* for (let i = 0; i < workerCount; i++) workers.push((async () => {...})()):
\* every worker runs synchronously up to its first await.
RECURSIVE spawnWorkers(_, _, _)
spawnWorkers(st, i, n) ==
    IF i > n THEN st
    ELSE spawnWorkers(
            workerTurn([st EXCEPT !.workers = Append(@, [pc |-> "new", item |-> 0])], i),
            i + 1, n)

\* Mutant: resolves with the first worker that returns (a race, not all).
anyWorkerDone(ws) == \E w \in DOMAIN ws : ws[w].pc = "done"

\* Promise.all(workers) resolves when every worker's promise has resolved.
allWorkersDone(ws) == \A w \in DOMAIN ws : ws[w].pc = "done"

SetPoolState(st) ==
    /\ queue' = st.queue
    /\ workers' = st.workers
    /\ processedCount' = st.processedCount
    /\ sinkCalls' = st.sinkCalls
    /\ invoked' = st.invoked
    /\ commits' = st.commits

\* Mutant: resolves once no worker is left running, rejected ones included
\* (the outcome of Promise.allSettled taken for success).
SettleWhenAllSettled(st) ==
    runState' = IF \A w \in DOMAIN st.workers :
                       st.workers[w].pc \in {"done", "rejected"}
                THEN "Completed" ELSE runState

\* The run settles once: Promise.all resolves when the last worker returns,
\* unless it has rejected already.
SettleIfDone(st) ==
    runState' = IF runState = "Running" /\ allWorkersDone(st.workers)
                THEN "Completed" ELSE runState

\* const chunks = chunkArray(items, size); await processInPool(chunks, limit,
\* ...): chunk the items, then processInPool up to its await Promise.all.
PoolRun(items, size, limit) ==
    /\ chunks' = chunkArray(items, size)
    /\ LET st0 == [queue |-> [i \in 1..Len(chunks') |-> i],
                   workers |-> <<>>,
                   processedCount |-> 0,
                   sinkCalls |-> sinkCalls,
                   invoked |-> [i \in 1..Len(chunks') |-> 0],
                   commits |-> commits]
           st == spawnWorkers(st0, 1, workerCount(limit, chunks'))
       IN  /\ SetPoolState(st)
           /\ runState' = IF st.workers = <<>> THEN "Completed" ELSE "Running"

\* uploadMasterRecordsBatch / uploadAddressesBatch / restoreBackupBatch is
\* called.
PoolCall ==
    /\ variant = "pool"
    /\ op \in Ops
    /\ runState = "Idle"
    /\ PoolRun(records, BATCH_SIZE, CONCURRENCY_LIMIT)
    /\ UNCHANGED <<variant, op, records, runError, seqPc, seqIdx, store,
                   committed, rejected, chunkVars, archVars, readVars, panelVars, appVars, dualVars>>

\* What processItem does once its commit has resolved: processChunk counts
\* the chunk and reports progress, processDeleteChunk returns.
afterCommit(st, c) == IF op = "archive" THEN st ELSE poolProgress(st, c)

\* What the rejection of processInPool leaves of the run: the batch writers
\* pass it on; archiveCurrentSession catches it, logs and returns.
poolRejectionThrown(o) == "Failed"

poolRejection(o) == IF o = "archive" THEN "Completed" ELSE "Failed"

\* batch.commit() of worker w resolves: the batch is in the store, processChunk
\* reports progress and returns, the worker takes its next turn.
CommitOk(w) ==
    /\ variant = "pool"
    /\ w \in DOMAIN workers
    /\ workers[w].pc = "commit"
    /\ chunks' = chunks
    /\ LET c == workers[w].item
           st == workerTurn(afterCommit(PoolState, c), w)
       IN  /\ store' = applyBatch(store, poolBatchOps(op, chunks[c]))
           /\ committed' = committed \cup {c}
           /\ SetPoolState(st)
           /\ SettleIfDone(st)
    /\ UNCHANGED <<variant, op, records, runError, seqPc, seqIdx, rejected,
                   chunkVars, archVars, readVars, panelVars, appVars, dualVars>>

\* batch.commit() of worker w rejects: processChunk rethrows, the worker's
\* promise rejects, and Promise.all rejects with the first such error.
CommitFail(w) ==
    /\ variant = "pool"
    /\ w \in DOMAIN workers
    /\ workers[w].pc = "commit"
    /\ workers' = [workers EXCEPT ![w] = [pc |-> "rejected", item |-> @.item]]
    /\ rejected' = Append(rejected, workers[w].item)
    /\ runState' = IF runState = "Running" THEN poolRejection(op) ELSE runState
    /\ runError' = IF runState = "Running" /\ poolRejection(op) = "Failed"
                   THEN workers[w].item ELSE runError
    /\ UNCHANGED <<variant, op, records, chunks, queue, seqPc, seqIdx,
                   processedCount, store, sinkCalls, invoked, commits, committed,
                   chunkVars, archVars, readVars, panelVars, appVars, dualVars>>

\* A worker whose chunk needed no commit continues after its await.
Resume(w) ==
    /\ variant = "pool"
    /\ w \in DOMAIN workers
    /\ workers[w].pc = "resume"
    /\ chunks' = chunks
    /\ LET st == workerTurn(PoolState, w)
       IN  /\ SetPoolState(st)
           /\ SettleIfDone(st)
    /\ UNCHANGED <<variant, op, records, runError, seqPc, seqIdx, store,
                   committed, rejected, chunkVars, archVars, readVars, panelVars, appVars, dualVars>>

PoolNext ==
    \/ PoolCall
    \/ \E w \in 1..CONCURRENCY_LIMIT : CommitOk(w)
    \/ \E w \in 1..CONCURRENCY_LIMIT : CommitFail(w)
    \/ \E w \in 1..CONCURRENCY_LIMIT : Resume(w)

PoolInit == InitRun("pool") /\ InitChunkIdle

PoolSpec == PoolInit /\ [][PoolNext]_vars

\* ------------------------------------------------------ sequential variant
SeqState ==
    [seqPc |-> seqPc, seqIdx |-> seqIdx, processedCount |-> processedCount,
     sinkCalls |-> sinkCalls, invoked |-> invoked, commits |-> commits,
     runState |-> runState]

\* processedCount += chunk.length; onProgress(Math.min(processedCount,
\* records.length), records.length); await new Promise(r => setTimeout(r, 0))
seqProgress(st, c) ==
    LET n == st.processedCount + Len(chunks'[c])
    IN  [st EXCEPT !.processedCount = n,
                   !.sinkCalls = Append(@, <<Min(n, Len(records)), Len(records)>>),
                   !.seqPc = "timeout"]

\* One iteration of for (const chunk of chunks), from its start to its await:
\* of the commit when the batch holds operations, of the timer otherwise.
\* The loop over, the function returns.
seqIteration(st, i) ==
    IF i > Len(chunks')
    THEN [st EXCEPT !.seqPc = "none", !.seqIdx = i, !.runState = "Completed"]
    ELSE LET st1 == [st EXCEPT !.seqIdx = i, !.invoked[i] = @ + 1]
         IN  IF seqCommits(op, chunks'[i])
             THEN [st1 EXCEPT !.seqPc = "commit", !.commits = Append(@, i)]
             ELSE seqProgress(st1, i)

SetSeqState(st) ==
    /\ seqPc' = st.seqPc
    /\ seqIdx' = st.seqIdx
    /\ processedCount' = st.processedCount
    /\ sinkCalls' = st.sinkCalls
    /\ invoked' = st.invoked
    /\ commits' = st.commits
    /\ runState' = st.runState

\* Mutant: the call reports no initial progress.
seqInitialSinkNone(calls, total) == calls

\* if (onProgress) onProgress(0, records.length)
seqInitialSink(calls, total) == Append(calls, <<0, total>>)

\* The sequential uploadMasterRecordsBatch / uploadAddressesBatch /
\* restoreBackupBatch is called: initial progress, chunking, first iteration.
SeqCall ==
    /\ variant = "seq"
    /\ op \in Ops
    /\ runState = "Idle"
    /\ chunks' = chunkArray(records, SEQ_BATCH_SIZE)
    /\ SetSeqState(seqIteration(
            [seqPc |-> "none", seqIdx |-> 0, processedCount |-> 0,
             sinkCalls |-> seqInitialSink(sinkCalls, Len(records)),
             invoked |-> [i \in 1..Len(chunks') |-> 0],
             commits |-> commits, runState |-> "Running"], 1))
    /\ UNCHANGED <<variant, op, records, runError, queue, workers, store,
                   committed, rejected, chunkVars, archVars, readVars, panelVars, appVars, dualVars>>

\* await batch.commit() resolves.
SeqCommitOk ==
    /\ variant = "seq"
    /\ seqPc = "commit"
    /\ chunks' = chunks
    /\ store' = applyBatch(store, seqBatchOps(op, chunks[seqIdx]))
    /\ committed' = committed \cup {seqIdx}
    /\ SetSeqState(seqProgress(SeqState, seqIdx))
    /\ UNCHANGED <<variant, op, records, runError, queue, workers, rejected,
                   chunkVars, archVars, readVars, panelVars, appVars, dualVars>>

\* Mutant: the rejection is dropped and the loop goes on with the next chunk.
SeqCommitFailGoesOn ==
    /\ variant = "seq"
    /\ seqPc = "commit"
    /\ chunks' = chunks
    /\ rejected' = Append(rejected, seqIdx)
    /\ SetSeqState(seqIteration(SeqState, seqIdx + 1))
    /\ UNCHANGED <<variant, op, records, runError, queue, workers, store,
                   committed, chunkVars, archVars, readVars, panelVars, appVars,
                   dualVars>>

\* await batch.commit() rejects: the error leaves the loop and the function.
SeqCommitFail ==
    /\ variant = "seq"
    /\ seqPc = "commit"
    /\ seqPc' = "none"
    /\ rejected' = Append(rejected, seqIdx)
    /\ runState' = "Failed"
    /\ runError' = seqIdx
    /\ UNCHANGED <<variant, op, records, chunks, queue, workers, seqIdx,
                   processedCount, store, sinkCalls, invoked, commits, committed,
                   chunkVars, archVars, readVars, panelVars, appVars, dualVars>>

\* The zero-delay timer fires: the next iteration starts.
SeqTimeout ==
    /\ variant = "seq"
    /\ seqPc = "timeout"
    /\ chunks' = chunks
    /\ SetSeqState(seqIteration(SeqState, seqIdx + 1))
    /\ UNCHANGED <<variant, op, records, runError, queue, workers, store,
                   committed, rejected, chunkVars, archVars, readVars, panelVars, appVars, dualVars>>

SeqNext ==
    \/ SeqCall
    \/ SeqCommitOk
    \/ SeqCommitFail
    \/ SeqTimeout

SeqInit == InitRun("seq") /\ InitChunkIdle

SeqSpec == SeqInit /\ [][SeqNext]_vars

\* Both variants of the batch writers.
Init == (\E v \in {"pool", "seq"} : InitRun(v)) /\ InitChunkIdle

Next == PoolNext \/ SeqNext

Spec == Init /\ [][Next]_vars

\* Uploads of the master and address lists whose rows carry two distinct
\* keys, one of them in two raw spellings, and blank keys.
UpsertKeyChoices == {1, 3, 4, 5}

UpsertLists(o) ==
    UNION { { [i \in 1..n |-> MkRecord(o, i, ks[i])] : ks \in [1..n -> UpsertKeyChoices] }
            : n \in 0..MaxRecords }

UpsertInit ==
    /\ op \in {"master", "addresses"}
    /\ records \in UpsertLists(op)
    /\ \E v \in {"pool", "seq"} : IdleRun(v)
    /\ InitChunkIdle

UpsertSpec == UpsertInit /\ [][Next]_vars

\* Runs under the scheduling the runtime gives: every pending batch.commit()
\* settles (it resolves or rejects), every resolved await is resumed, and the
\* zero-delay timer of the sequential loop fires.  Nothing obliges the caller
\* to start a run.
LiveKeyChoices == {1, 3}

LiveLists(o) ==
    UNION { { [i \in 1..n |-> MkRecord(o, i, ks[i])] : ks \in [1..n -> LiveKeyChoices] }
            : n \in 0..MaxRecords }

LiveInit ==
    /\ op \in Ops
    /\ records \in LiveLists(op)
    /\ \E v \in {"pool", "seq"} : IdleRun(v)
    /\ InitChunkIdle

Fairness ==
    /\ \A w \in 1..CONCURRENCY_LIMIT :
          /\ WF_vars(CommitOk(w) \/ CommitFail(w))
          /\ WF_vars(Resume(w))
    /\ WF_vars(SeqCommitOk \/ SeqCommitFail)
    /\ WF_vars(SeqTimeout)

LiveSpec == LiveInit /\ [][Next]_vars /\ Fairness

\* ------------------------------------------------ a call of chunkArray alone
ChunkItems == {"a", "b"}

ChunkInit ==
    /\ op = "master"
    /\ records = <<>>
    /\ IdleRun("pool")
    /\ cArray \in UNION { [1..n -> ChunkItems] : n \in 0..MaxLen }
    /\ cSize \in 1..MaxSize
    /\ cResult = <<>>
    /\ cCalled = FALSE
    /\ NoFetch
    /\ NoPanel
    /\ NoApp
    /\ NoDual

ChunkCall ==
    /\ ~cCalled
    /\ cCalled' = TRUE
    /\ cResult' = chunkArray(cArray, cSize)
    /\ UNCHANGED <<cArray, cSize, runVars, readVars, panelVars, appVars, dualVars>>

ChunkNext == ChunkCall

ChunkSpec == ChunkInit /\ [][ChunkNext]_vars

\* ------------------------------------------------------ collection fetches
\* fetchMasterRecordsDB, fetchAddressesDB, fetchArchivesDB and
\* fetchAllStudentsForBackup: each awaits getDocs of one collection.
FetchKinds == {"master", "addresses", "archives", "backup"}

\* snapshot.docs: the documents of a collection in the backend's order, which
\* the model takes to be the order of the rows' numbers.
RECURSIVE snapshotDocs(_)
snapshotDocs(coll) ==
    IF DOMAIN coll = {} THEN <<>>
    ELSE LET k == CHOOSE x \in DOMAIN coll :
                      \A y \in DOMAIN coll : coll[x].idx <= coll[y].idx
         IN  <<[ref |-> k, data |-> coll[k]]>>
                 \o snapshotDocs([y \in DOMAIN coll \ {k} |-> coll[y]])

\* snapshot.docs.map(doc => doc.data())
docsData(docs) == [i \in DOMAIN docs |-> docs[i].data]

\* Mutant: no fetch catches the failure of its read.
catchesNothing(v, kind) == FALSE

\* Whether the fetch wraps its read in a try/catch that returns []: the three
\* listings do; fetchAllStudentsForBackup logs and rethrows in
\* services/firestore.ts and has no try/catch in the sequential variant.
catchesReadError(v, kind) == kind # "backup"

\* A fetch is called: it runs up to its await of getDocs.
FetchCall ==
    /\ fetchPc = "idle"
    /\ fetchKind' \in FetchKinds
    /\ fetchPc' = "await"
    /\ UNCHANGED <<fetchResult, runVars, chunkVars, panelVars, appVars, dualVars>>

\* getDocs resolves: the fetch returns the data of the snapshot's documents.
GetDocsOk ==
    /\ fetchPc = "await"
    /\ fetchPc' = "ok"
    /\ fetchResult' = docsData(snapshotDocs(store))
    /\ UNCHANGED <<fetchKind, runVars, chunkVars, panelVars, appVars, dualVars>>

\* getDocs rejects: the catch block returns [], or the error reaches the
\* caller.
GetDocsFail ==
    /\ fetchPc = "await"
    /\ IF catchesReadError(variant, fetchKind)
       THEN fetchPc' = "caught" /\ fetchResult' = <<>>
       ELSE fetchPc' = "thrown" /\ fetchResult' = fetchResult
    /\ UNCHANGED <<fetchKind, runVars, chunkVars, panelVars, appVars, dualVars>>

ReadNext == FetchCall \/ GetDocsOk \/ GetDocsFail

\* The collections a fetch may find: what a restore of a list of rows left.
StoredCollections ==
    {applyBatch(EmptyColl, poolBatchOps("restore", l)) : l \in LiveLists("restore")}

ReadInit ==
    /\ op = "restore"
    /\ records = <<>>
    /\ \E v \in {"pool", "seq"} : NoRun(v)
    /\ InitChunkIdle
    /\ store \in StoredCollections

ReadSpec == ReadInit /\ [][ReadNext]_vars

\* --------------------------------------------------- archiveCurrentSession
\* The call: up to the first await, of the batch that saves the archive and
\* the new exam name (services/firestore.ts) or of the setDoc that saves the
\* archive (sequential variant).  The archive is the caller's: App.tsx
\* builds it from its students state (students: [...students]); mounted, the
\* App shows its loader until the listener has called back.
ArchiveCall ==
    /\ op = "archive"
    /\ runState = "Idle"
    /\ ~listener.first
    /\ runState' = "Running"
    /\ archPc' = "save"
    /\ archiveData' = localStudents
    /\ UNCHANGED <<variant, op, records, runError, chunks, queue, workers, seqPc,
                   seqIdx, processedCount, store, sinkCalls, invoked, commits,
                   committed, rejected, archived, examName, chunkVars, readVars,
                   panelVars, localStudents, appArchives, viewOnly, appWrites,
                   listener, dualVars>>

\* The save resolves; the function awaits getDocs of the students.
ArchiveSaveOk ==
    /\ runState = "Running"
    /\ archPc = "save"
    /\ archived' = TRUE
    /\ examName' = IF variant = "pool" THEN "new" ELSE examName
    /\ archPc' = "read"
    /\ UNCHANGED <<variant, op, records, runState, runError, chunks, queue,
                   workers, seqPc, seqIdx, processedCount, store, sinkCalls,
                   invoked, commits, committed, rejected, chunkVars, readVars, panelVars, appVars, dualVars>>

\* Mutant: the rejection of the save is dropped and the function goes on to
\* read and delete the students.
ArchiveSaveFailDropped ==
    /\ runState = "Running"
    /\ archPc = "save"
    /\ archPc' = "read"
    /\ UNCHANGED <<variant, op, records, runState, runError, chunks, queue,
                   workers, seqPc, seqIdx, processedCount, store, sinkCalls,
                   invoked, commits, committed, rejected, archived, examName,
                   chunkVars, readVars, panelVars, appVars, dualVars>>

\* The save rejects: it is outside every try block.
ArchiveSaveFail ==
    /\ runState = "Running"
    /\ archPc = "save"
    /\ runState' = "Failed"
    /\ UNCHANGED <<variant, op, records, runError, chunks, queue, workers, seqPc,
                   seqIdx, processedCount, store, sinkCalls, invoked, commits,
                   committed, rejected, archVars, chunkVars, readVars, panelVars, appVars, dualVars>>

\* getDocs resolves (services/firestore.ts): the documents are chunked and
\* deleted through processInPool.
ArchiveDocsPool ==
    /\ variant = "pool"
    /\ runState = "Running"
    /\ archPc = "read"
    /\ records' = snapshotDocs(store)
    /\ PoolRun(records', BATCH_SIZE, CONCURRENCY_LIMIT)
    /\ archPc' = "delete"
    /\ UNCHANGED <<variant, op, runError, seqPc, seqIdx, store, committed,
                   rejected, archived, examName, chunkVars, readVars, panelVars, appVars, dualVars>>

\* getDocs resolves (sequential variant): chunkArray(snapshot.docs, 500) and
\* the first iteration of the delete loop up to its await batch.commit();
\* without documents the function goes on to saveCurrentExamConfig.
ArchiveDocsSeq ==
    /\ variant = "seq"
    /\ runState = "Running"
    /\ archPc = "read"
    /\ records' = snapshotDocs(store)
    /\ chunks' = chunkArray(records', SEQ_DELETE_BATCH_SIZE)
    /\ invoked' = [i \in 1..Len(chunks') |-> 0]
    /\ IF chunks' = <<>>
       THEN archPc' = "config" /\ seqIdx' = seqIdx /\ commits' = commits
       ELSE archPc' = "delete" /\ seqIdx' = 1 /\ commits' = Append(commits, 1)
    /\ UNCHANGED <<variant, op, runState, runError, queue, workers, seqPc,
                   processedCount, store, sinkCalls, committed, rejected,
                   archived, examName, chunkVars, readVars, panelVars, appVars, dualVars>>

\* getDocs rejects: services/firestore.ts catches, logs and returns; the
\* sequential variant passes the error on.
ArchiveDocsFail ==
    /\ runState = "Running"
    /\ archPc = "read"
    /\ runState' = IF variant = "pool" THEN "Completed" ELSE "Failed"
    /\ UNCHANGED <<variant, op, records, runError, chunks, queue, workers, seqPc,
                   seqIdx, processedCount, store, sinkCalls, invoked, commits,
                   committed, rejected, archVars, chunkVars, readVars, panelVars, appVars, dualVars>>

\* Sequential delete loop: await batch.commit() resolves, the next iteration
\* runs up to its commit; the loop over, saveCurrentExamConfig awaits setDoc.
SeqDeleteOk ==
    /\ variant = "seq"
    /\ runState = "Running"
    /\ archPc = "delete"
    /\ store' = applyBatch(store, deleteBatchOps(chunks[seqIdx]))
    /\ committed' = committed \cup {seqIdx}
    /\ IF seqIdx < Len(chunks)
       THEN /\ seqIdx' = seqIdx + 1
            /\ commits' = Append(commits, seqIdx + 1)
            /\ archPc' = archPc
       ELSE /\ seqIdx' = seqIdx
            /\ commits' = commits
            /\ archPc' = "config"
    /\ UNCHANGED <<variant, op, records, runState, runError, chunks, queue,
                   workers, seqPc, processedCount, sinkCalls, invoked, rejected,
                   archived, examName, chunkVars, readVars, panelVars, appVars, dualVars>>

\* Sequential delete loop: await batch.commit() rejects and the function
\* with it.
SeqDeleteFail ==
    /\ variant = "seq"
    /\ runState = "Running"
    /\ archPc = "delete"
    /\ rejected' = Append(rejected, seqIdx)
    /\ runState' = "Failed"
    /\ runError' = seqIdx
    /\ UNCHANGED <<variant, op, records, chunks, queue, workers, seqPc, seqIdx,
                   processedCount, store, sinkCalls, invoked, commits, committed,
                   archVars, chunkVars, readVars, panelVars, appVars, dualVars>>

\* saveCurrentExamConfig: setDoc resolves.
ArchiveConfigOk ==
    /\ runState = "Running"
    /\ archPc = "config"
    /\ examName' = "new"
    /\ runState' = "Completed"
    /\ UNCHANGED <<variant, op, records, runError, chunks, queue, workers, seqPc,
                   seqIdx, processedCount, store, sinkCalls, invoked, commits,
                   committed, rejected, archPc, archived, chunkVars, readVars, panelVars, appVars, dualVars>>

\* saveCurrentExamConfig: setDoc rejects; the error is logged and dropped.
ArchiveConfigFail ==
    /\ runState = "Running"
    /\ archPc = "config"
    /\ runState' = "Completed"
    /\ UNCHANGED <<variant, op, records, runError, chunks, queue, workers, seqPc,
                   seqIdx, processedCount, store, sinkCalls, invoked, commits,
                   committed, rejected, archVars, chunkVars, readVars, panelVars, appVars, dualVars>>

\* The steps of the archive that are its own; the commits of the pooled
\* delete are CommitOk and CommitFail.
ArchiveSteps ==
    \/ ArchiveCall
    \/ ArchiveSaveOk
    \/ ArchiveSaveFail
    \/ ArchiveDocsPool
    \/ ArchiveDocsSeq
    \/ ArchiveDocsFail
    \/ SeqDeleteOk
    \/ SeqDeleteFail
    \/ ArchiveConfigOk
    \/ ArchiveConfigFail

\* An archive of a collection of students.
ArchiveInit ==
    /\ op = "archive"
    /\ records = <<>>
    /\ \E v \in {"pool", "seq"} : NoRun(v)
    /\ InitChunkIdle
    /\ store \in StoredCollections

\* Every run that commits batches: the writers and the archive's delete.
BatchInit == LiveInit \/ ArchiveInit

BatchNext == Next \/ ArchiveSteps

BatchSpec == BatchInit /\ [][BatchNext]_vars

\* ------------------------------------------- the upload at its real sizes
\* const BATCH_SIZE = 500; const CONCURRENCY_LIMIT = 25 of
\* uploadMasterRecordsBatch (services/firestore.ts).
MasterBatchSize == 500
MasterConcurrency == 25

\* const pct = Math.round((processed / total) * 100): 0 / 0 is NaN and
\* Math.round(NaN) is NaN; a positive count over 0 is Infinity.
pct(processed, total) ==
    IF total = 0
    THEN IF processed = 0 THEN "NaN" ELSE "Infinity"
    ELSE (200 * processed + total) \div (2 * total)

\* Master lists of 1,203 rows; the rows of each third of the list carry a
\* blank seat number or one of two that need sanitizing.
ScenarioLists ==
    { [i \in 1..1203 |->
          MkRecord("master", i, IF i <= 500 THEN k[1]
                                ELSE IF i <= 1000 THEN k[2] ELSE k[3])]
      : k \in [1..3 -> {2, 3, 5}] }

ScenarioInit ==
    /\ op = "master"
    /\ records \in ScenarioLists
    /\ IdleRun("pool")
    /\ InitChunkIdle

\* uploadMasterRecordsBatch is called.
ScenarioCall ==
    /\ variant = "pool"
    /\ op = "master"
    /\ runState = "Idle"
    /\ PoolRun(records, MasterBatchSize, MasterConcurrency)
    /\ UNCHANGED <<variant, op, records, runError, seqPc, seqIdx, store,
                   committed, rejected, chunkVars, archVars, readVars, panelVars, appVars, dualVars>>

ScenarioNext ==
    \/ ScenarioCall
    \/ \E w \in 1..MasterConcurrency : CommitOk(w)
    \/ \E w \in 1..MasterConcurrency : CommitFail(w)
    \/ \E w \in 1..MasterConcurrency : Resume(w)

ScenarioSpec == ScenarioInit /\ [][ScenarioNext]_vars

\* ------------------------------------------------ the progress callback
\* The handlers of the admin panel set uploadProgress to 0 and estimatedTime
\* to 'Calculating...' and pass createProgressCallback(startTime) as the sink
\* of the run.  A text is a tuple of its parts.
panelStart ==
    [uploadProgress |-> 0, estimatedTime |-> <<"Calculating...">>,
     rated |-> FALSE, divided |-> FALSE]

\* formatTime(seconds)
formatTime(seconds) ==
    IF seconds < 0 THEN <<"Finishing...">>
    ELSE IF seconds < 60 THEN <<seconds, "Sec remaining">>
    ELSE <<seconds \div 60, "Min", seconds % 60, "Sec remaining">>

\* Mutant: the estimate is computed whatever the clock reads.
estimatesWithoutClock(processed, elapsedMs) == processed > 0

\* if (processed > 0 && elapsedSeconds > 0)
estimates(processed, elapsedMs) == processed > 0 /\ elapsedMs > 0

\* Math.round(remainingRecords / recordsPerSecond), recordsPerSecond being
\* processed / elapsedSeconds (infinite, and the quotient 0, at elapsed 0).
secondsRemaining(processed, total, elapsedMs) ==
    (2 * (total - processed) * elapsedMs + 1000 * processed)
        \div (2000 * processed)

\* One call of the callback: the percentage, then the estimate.  rated and
\* divided record whether the call computed the rate and divided by it.
progressCallback(panel, processed, total, elapsedMs) ==
    [uploadProgress |-> pct(processed, total),
     estimatedTime |->
        IF estimates(processed, elapsedMs)
        THEN IF total - processed <= 0 THEN <<"Finishing up...">>
             ELSE formatTime(secondsRemaining(processed, total, elapsedMs))
        ELSE panel.estimatedTime,
     rated |-> estimates(processed, elapsedMs),
     divided |-> estimates(processed, elapsedMs) /\ total - processed > 0]

\* The panel after the k-th call of the sink.
RECURSIVE panelAfter(_)
panelAfter(k) ==
    IF k = 0 THEN panelStart
    ELSE progressCallback(panelAfter(k - 1), sinkCalls[k][1], sinkCalls[k][2],
                          elapsedAt[k])

\* What the clock may read at the calls of one run: no time, a fraction of
\* a second or a minute since the start, never less than at the call before.
ElapsedReadings == {0, 400, 61000}
MaxCalls == MaxRecords + 1
ClockReadings ==
    {e \in [1..MaxCalls -> ElapsedReadings] :
        \A i \in 1..(MaxCalls - 1) : e[i] <= e[i + 1]}

\* The upload handlers pass on a non-empty list (normalizedData.length === 0
\* is an error); handleRestoreData passes on whatever array the file holds.
PanelInit ==
    /\ op \in Ops
    /\ records \in LiveLists(op)
    /\ op = "restore" \/ records # <<>>
    /\ \E v \in {"pool", "seq"} : IdleRun(v)
    /\ cArray = <<>>
    /\ cSize = 1
    /\ cResult = <<>>
    /\ cCalled = FALSE
    /\ NoFetch
    /\ NoApp
    /\ NoDual
    /\ elapsedAt \in ClockReadings

PanelSpec == PanelInit /\ [][Next]_vars

\* ------------------------------------------------------------------ App.tsx
\* The App over the students collection: the onSnapshot listener, the
\* handlers of the list and of the form, archive-and-reset and the loading
\* of an archive.  MaxWrites bounds the writes the user makes.
MaxWrites == 1

\* students.push({ ...doc.data(), id: doc.id })
studentOf(d) ==
    [f \in DOMAIN d.data \cup {"id"} |-> IF f = "id" THEN d.ref ELSE d.data[f]]

snapshotStudents(coll) ==
    LET docs == snapshotDocs(coll)
    IN  [i \in DOMAIN docs |-> studentOf(docs[i])]

\* const { id, ...data } = student
withoutId(student) == [f \in DOMAIN student \ {"id"} |-> student[f]]

\* A student the form creates, and one another session of the faculty adds.
NewStudent == [idx |-> MaxRecords + 1, id |-> <<"n", "e", "w">>]
OtherStudent == [idx |-> MaxRecords + 2, id |-> <<"o", "t", "h">>]

\* The form's edit of a listed student.
edited(student) == [f \in DOMAIN student \cup {"edited"} |->
                       IF f = "edited" THEN TRUE ELSE student[f]]

\* The listener delivers a snapshot: setStudents(data).
SubscriptionUpdate ==
    /\ listener.open
    /\ listener.first \/ listener.last # store
    /\ localStudents' = snapshotStudents(store)
    /\ listener' = [open |-> TRUE, first |-> FALSE, last |-> store]
    /\ viewOnly' = FALSE
    /\ UNCHANGED <<runVars, chunkVars, readVars, panelVars, archiveData,
                   appArchives, appWrites, dualVars>>

\* The listener fails: onUpdate([]), and the listener is closed.
SubscriptionError ==
    /\ listener.open
    /\ localStudents' = <<>>
    /\ listener' = [listener EXCEPT !.open = FALSE, !.first = FALSE]
    /\ viewOnly' = FALSE
    /\ UNCHANGED <<runVars, chunkVars, readVars, panelVars, archiveData,
                   appArchives, appWrites, dualVars>>

\* Another session of the faculty adds a student.
OtherClientAdds ==
    /\ OtherStudent.id \notin DOMAIN store
    /\ store' = applyOp(store, SetOp(OtherStudent.id, withoutId(OtherStudent), FALSE))
    /\ UNCHANGED <<variant, op, records, runState, runError, chunks, queue,
                   workers, seqPc, seqIdx, processedCount, sinkCalls, invoked,
                   commits, committed, rejected, archVars, chunkVars, readVars,
                   panelVars, appVars, dualVars>>

\* What a write does to the collection once the backend has applied it.
\* updateDoc rejects for a document that is not stored.
applyWrite(coll, w) ==
    IF w.kind = "delete" THEN applyOp(coll, DeleteOp(w.id))
    ELSE IF w.kind = "add" THEN applyOp(coll, SetOp(w.id, w.data, FALSE))
    ELSE IF w.id \in DOMAIN coll THEN applyOp(coll, SetOp(w.id, w.data, TRUE))
    ELSE coll

\* The handler has issued write w; the backend applies it or fails.
Issue(w) ==
    /\ ~listener.first
    /\ Len(appWrites) < MaxWrites
    /\ appWrites' = Append(appWrites, w)
    /\ \E ok \in BOOLEAN : store' = IF ok THEN applyWrite(store, w) ELSE store
    /\ UNCHANGED <<variant, op, records, runState, runError, chunks, queue,
                   workers, seqPc, seqIdx, processedCount, sinkCalls, invoked,
                   commits, committed, rejected, archVars, chunkVars, readVars,
                   panelVars, localStudents, archiveData, appArchives, viewOnly,
                   listener, dualVars>>

\* handleDelete(id) of a listed student, confirmed:
\* deleteStudentFromDB(currentUser.id, id).
HandleDelete ==
    \E i \in DOMAIN localStudents :
        /\ Issue([kind |-> "delete", id |-> localStudents[i].id,
                  viewOnly |-> viewOnly])

\* handleSaveStudent(data): updateStudentInDB if students holds the id,
\* addStudentToDB if not.
HandleSaveStudent ==
    \E data \in {edited(localStudents[i]) : i \in DOMAIN localStudents}
                    \cup {NewStudent} :
        /\ Issue([kind |-> IF \E i \in DOMAIN localStudents :
                                  localStudents[i].id = data.id
                           THEN "update" ELSE "add",
                  id |-> data.id, data |-> withoutId(data),
                  viewOnly |-> viewOnly])

\* handleArchiveAndReset after archiveCurrentSession has resolved:
\* setArchives(prev => [newArchive, ...prev]).  (One archive is made.)
ArchiveHandlerDone ==
    /\ op = "archive"
    /\ runState = "Completed"
    /\ appArchives = <<>>
    /\ appArchives' = <<archiveData>> \o appArchives
    /\ UNCHANGED <<runVars, chunkVars, readVars, panelVars, localStudents,
                   archiveData, viewOnly, appWrites, listener, dualVars>>

\* handleRestoreArchive(session), confirmed ("VIEW ONLY MODE ... Changes
\* will NOT be saved."): setStudents(session.students).
HandleRestoreArchive ==
    \E i \in DOMAIN appArchives :
        /\ localStudents' = appArchives[i]
        /\ viewOnly' = TRUE
        /\ UNCHANGED <<runVars, chunkVars, readVars, panelVars, archiveData,
                       appArchives, appWrites, listener, dualVars>>

AppSteps ==
    \/ SubscriptionUpdate
    \/ SubscriptionError
    \/ OtherClientAdds
    \/ HandleDelete
    \/ HandleSaveStudent
    \/ ArchiveHandlerDone
    \/ HandleRestoreArchive

\* The commits of the archive's pooled delete (every delete chunk commits).
PoolSteps ==
    \/ \E w \in 1..CONCURRENCY_LIMIT : CommitOk(w)
    \/ \E w \in 1..CONCURRENCY_LIMIT : CommitFail(w)

\* The collections the App is mounted over: up to MaxSize students, restored
\* under ids of their own.
AppCollections ==
    {applyBatch(EmptyColl,
                poolBatchOps("restore", [i \in 1..n |-> MkRecord("restore", i, 1)]))
        : n \in 0..MaxSize}

\* The App is mounted over a stored collection: the listener is open and
\* has delivered nothing yet.
AppInit ==
    /\ op = "archive"
    /\ records = <<>>
    /\ \E v \in {"pool", "seq"} : NoRun(v)
    /\ store \in AppCollections
    /\ cArray = <<>>
    /\ cSize = 1
    /\ cResult = <<>>
    /\ cCalled = FALSE
    /\ NoFetch
    /\ NoPanel
    /\ NoDual
    /\ localStudents = <<>>
    /\ archiveData = <<>>
    /\ appArchives = <<>>
    /\ viewOnly = FALSE
    /\ appWrites = <<>>
    /\ listener = [open |-> TRUE, first |-> TRUE, last |-> EmptyColl]

AppNext == AppSteps \/ ArchiveSteps \/ PoolSteps

AppSpec == AppInit /\ [][AppNext]_vars

\* ------------------------------------------------------ overlapping calls
\* Two calls of one pooled batch writer whose runs overlap.  Each call has
\* its own closure: its argument, its chunks, the queue and the workers of
\* its processInPool, and its let processedCount; dual[r] is the closure of
\* call r and sinkCalls in it the calls of the onProgress it was given.  The
\* calls write to the one collection.
Calls == {1, 2}

IdleCall(list) ==
    [records |-> list, chunks |-> <<>>, queue |-> <<>>, workers |-> <<>>,
     processedCount |-> 0, sinkCalls |-> <<>>, runState |-> "Idle"]

\* Mutant: processedCount is a binding of the module, which the calls share.
callProgressShared(run, c) ==
    LET n == dual[1].processedCount + dual[2].processedCount
                 + Len(run.chunks[c])
    IN  [run EXCEPT !.processedCount = @ + Len(run.chunks[c]),
                    !.sinkCalls = Append(@, <<IF op = "restore" THEN n
                                               ELSE Min(n, Len(run.records)),
                                              Len(run.records)>>)]

\* processedCount += chunk.length; onProgress(Math.min(processedCount,
\* records.length), records.length)   (restore passes processedCount as is)
callProgress(run, c) ==
    LET n == run.processedCount + Len(run.chunks[c])
    IN  [run EXCEPT !.processedCount = n,
                    !.sinkCalls = Append(@, <<IF op = "restore" THEN n
                                               ELSE Min(n, Len(run.records)),
                                              Len(run.records)>>)]

\* One turn of a worker of the call, as workerTurn.
callTurn(run, w) ==
    IF run.queue = <<>>
    THEN [run EXCEPT !.workers[w] = [pc |-> "done", item |-> 0]]
    ELSE LET d == Dequeue(run.queue)
             c == d.item
             run1 == [run EXCEPT !.queue = d.rest]
         IN  IF poolCommits(op, run.chunks[c])
             THEN [run1 EXCEPT !.workers[w] = [pc |-> "commit", item |-> c]]
             ELSE [callProgress(run1, c) EXCEPT
                        !.workers[w] = [pc |-> "resume", item |-> c]]

RECURSIVE callSpawn(_, _, _)
callSpawn(run, i, n) ==
    IF i > n THEN run
    ELSE callSpawn(
            callTurn([run EXCEPT !.workers = Append(@, [pc |-> "new", item |-> 0])], i),
            i + 1, n)

\* Promise.all of the call resolves when its last worker returns.
callSettle(run) ==
    [run EXCEPT !.runState = IF @ = "Running" /\ allWorkersDone(run.workers)
                             THEN "Completed" ELSE @]

soloVars == <<variant, op, records, runState, runError, chunks, queue, workers,
              seqPc, seqIdx, processedCount, sinkCalls, invoked, commits,
              committed, rejected, archVars>>

\* Call r is made: chunkArray, then processInPool up to its Promise.all.
DualCall(r) ==
    /\ dual[r].runState = "Idle"
    /\ LET cs == chunkArray(dual[r].records, BATCH_SIZE)
           run0 == [dual[r] EXCEPT !.chunks = cs,
                                   !.queue = [i \in 1..Len(cs) |-> i],
                                   !.runState = IF cs = <<>> THEN "Completed"
                                                ELSE "Running"]
           run == callSpawn(run0, 1, workerCount(CONCURRENCY_LIMIT, cs))
       IN  dual' = [dual EXCEPT ![r] = run]
    /\ UNCHANGED <<soloVars, store, chunkVars, readVars, panelVars, appVars>>

\* batch.commit() of worker w of call r resolves.
DualCommitOk(r, w) ==
    /\ w \in DOMAIN dual[r].workers
    /\ dual[r].workers[w].pc = "commit"
    /\ LET c == dual[r].workers[w].item
       IN  /\ store' = applyBatch(store, poolBatchOps(op, dual[r].chunks[c]))
           /\ dual' = [dual EXCEPT
                          ![r] = callSettle(callTurn(callProgress(dual[r], c), w))]
    /\ UNCHANGED <<soloVars, chunkVars, readVars, panelVars, appVars>>

\* batch.commit() of worker w of call r rejects, and the call with it.
DualCommitFail(r, w) ==
    /\ w \in DOMAIN dual[r].workers
    /\ dual[r].workers[w].pc = "commit"
    /\ dual' = [dual EXCEPT
                   ![r].workers[w] = [pc |-> "rejected", item |-> @.item],
                   ![r].runState = IF @ = "Running" THEN "Failed" ELSE @]
    /\ UNCHANGED <<soloVars, store, chunkVars, readVars, panelVars, appVars>>

\* A worker of call r whose chunk needed no commit continues.
DualResume(r, w) ==
    /\ w \in DOMAIN dual[r].workers
    /\ dual[r].workers[w].pc = "resume"
    /\ dual' = [dual EXCEPT ![r] = callSettle(callTurn(dual[r], w))]
    /\ UNCHANGED <<soloVars, store, chunkVars, readVars, panelVars, appVars>>

DualNext ==
    \/ \E r \in Calls : DualCall(r)
    \/ \E r \in Calls, w \in 1..CONCURRENCY_LIMIT : DualCommitOk(r, w)
    \/ \E r \in Calls, w \in 1..CONCURRENCY_LIMIT : DualCommitFail(r, w)
    \/ \E r \in Calls, w \in 1..CONCURRENCY_LIMIT : DualResume(r, w)

\* The lists of the two calls: one chunk or several, the rows with a key
\* or, those of the first chunk, with a blank one.
DualLists(o) ==
    {[i \in 1..n |-> MkRecord(o, i, IF i <= b THEN 1 ELSE 3)] :
        n \in {BATCH_SIZE, MaxRecords}, b \in {0, BATCH_SIZE}}

DualInit ==
    /\ op \in Ops
    /\ records = <<>>
    /\ IdleRun("pool")
    /\ cArray = <<>>
    /\ cSize = 1
    /\ cResult = <<>>
    /\ cCalled = FALSE
    /\ NoFetch
    /\ NoPanel
    /\ NoApp
    /\ dual \in [Calls -> {IdleCall(l) : l \in DualLists(op)}]

DualSpec == DualInit /\ [][DualNext]_vars

\* ================================================================== claims
ChunkIndices == 1..Len(chunks)
Settled == runState \in {"Completed", "Failed"}

\* Workers whose unit of work is under way (awaiting the commit, or the
\* resolved promise of a chunk that needed none).
InFlight == {w \in DOMAIN workers : workers[w].pc \in {"commit", "resume"}}

\* Workers whose chunk's batch.commit() has neither resolved nor rejected.
Committing == {w \in DOMAIN workers : workers[w].pc = "commit"}

\* Every worker of the pool has returned or thrown.
PoolQuiescent ==
    /\ variant = "pool"
    /\ Settled
    /\ \A w \in DOMAIN workers : workers[w].pc \in {"done", "rejected"}

\* The operations of chunk c's batch, by the variant that runs.
BatchOf(c) ==
    IF op = "archive" THEN deleteBatchOps(chunks[c])
    ELSE IF variant = "pool" THEN poolBatchOps(op, chunks[c])
    ELSE seqBatchOps(op, chunks[c])

\* C1: chunkArray(records, size), size >= 1, returns chunks whose in-order
\* concatenation is records; no chunk is empty, every chunk has at most size
\* elements and every chunk but the last exactly size.
C1_ChunkPartition ==
    cCalled =>
        /\ Concat(cResult) = cArray
        /\ \A i \in 1..Len(cResult) :
              /\ Len(cResult[i]) >= 1
              /\ Len(cResult[i]) <= cSize
              /\ (i < Len(cResult) => Len(cResult[i]) = cSize)

\* C1 witness: a call that returned several chunks, the last one short.
C1_Witness ==
    /\ cCalled
    /\ Len(cResult) >= 2
    /\ Len(cResult[Len(cResult)]) < cSize

\* C2: when the commit of a chunk rejects the run resolves to failure with
\* the error of the (first) rejected commit, and every chunk committed before
\* stays in the store: each of its documents is there, holding data that a
\* resolved commit wrote under that id.
C2_FailureKeepsCommitted ==
    /\ (rejected # <<>> => runState = "Failed" /\ runError = rejected[1])
    /\ (runState = "Failed" => rejected # <<>>)
    /\ \A c \in committed : \A i \in 1..Len(BatchOf(c)) :
          LET o == BatchOf(c)[i]
          IN  /\ o.id \in DOMAIN store
              /\ \E d \in committed : \E j \in 1..Len(BatchOf(d)) :
                    /\ BatchOf(d)[j].id = o.id
                    /\ BatchOf(d)[j].data = store[o.id]

\* C2 witness: a failed run with a chunk committed and its documents stored.
C2_Witness ==
    /\ runState = "Failed"
    /\ committed # {}
    /\ store # EmptyColl

\* C3 as claimed: when the pool has run out, every chunk was invoked exactly
\* once, failing runs included.
C3_ExactlyOnceEveryRun ==
    PoolQuiescent => \A c \in ChunkIndices : invoked[c] = 1

\* C3 amended: no chunk is ever invoked twice, and a run that completes has
\* invoked every chunk exactly once (a failing run may leave chunks uninvoked).
C3_AtMostOnceAndOnceWhenCompleted ==
    /\ \A c \in DOMAIN invoked : invoked[c] <= 1
    /\ (runState = "Completed" => \A c \in ChunkIndices : invoked[c] = 1)
    /\ Len(commits) = Cardinality({commits[i] : i \in DOMAIN commits})

\* C3 witness: a completed pooled run over more chunks than workers.
C3_Witness ==
    /\ variant = "pool"
    /\ runState = "Completed"
    /\ Len(chunks) > CONCURRENCY_LIMIT
    /\ \A c \in ChunkIndices : invoked[c] = 1

\* C4 as claimed: the pool's result is never settled while a chunk's commit
\* is in flight or a chunk is still queued.
C4_SettlesAfterAllWork ==
    (variant = "pool" /\ Settled) => (Committing = {} /\ queue = <<>>)

\* C4 amended: the result resolves only after every chunk's work has
\* completed; it rejects with the first failure, whatever is still in flight.
C4_ResolvesAfterAllWork ==
    variant = "pool" =>
        /\ (runState = "Completed" =>
              /\ InFlight = {}
              /\ queue = <<>>
              /\ \A c \in ChunkIndices : invoked[c] = 1
              /\ \A i \in DOMAIN commits : commits[i] \in committed
              /\ rejected = <<>>)
        /\ (runState = "Failed" => rejected # <<>> /\ runError = rejected[1])

\* C4 witness: a pooled run that resolved after three commits.
C4_Witness ==
    /\ variant = "pool"
    /\ runState = "Completed"
    /\ Cardinality(committed) >= 3

\* C5: once the run has resolved to failure no chunk is dequeued, no commit
\* is started and the progress sink is not invoked again.
C5_NothingAfterFailure ==
    [][runState = "Failed" =>
          /\ queue' = queue
          /\ commits' = commits
          /\ sinkCalls' = sinkCalls]_vars

\* C6: the processed values passed to the sink never decrease, and when the
\* run has completed the last one is the total.
C6_ProgressMonotone ==
    /\ \A i, j \in DOMAIN sinkCalls : i <= j => sinkCalls[i][1] <= sinkCalls[j][1]
    /\ (runState = "Completed" /\ sinkCalls # <<>> =>
            sinkCalls[Len(sinkCalls)][1] = Len(records))
    /\ (runState = "Completed" /\ records # <<>> => sinkCalls # <<>>)

\* C6 witness: a completed pooled run that reported three times.
C6_Witness ==
    /\ variant = "pool"
    /\ runState = "Completed"
    /\ Len(sinkCalls) >= 3

\* C7: at every invocation of the sink 0 <= processed <= total, total being
\* the number of input records.
C7_ProgressBounds ==
    \A i \in DOMAIN sinkCalls :
        /\ sinkCalls[i][2] = Len(records)
        /\ 0 <= sinkCalls[i][1]
        /\ sinkCalls[i][1] <= sinkCalls[i][2]

\* C7 witness: a restore whose last chunk is short has reported the total.
C7_Witness ==
    /\ op = "restore"
    /\ Len(records) % BATCH_SIZE # 0
    /\ \E i \in DOMAIN sinkCalls : sinkCalls[i][1] = Len(records)

\* The sanitized form of each raw key of the model, written out.
ExpectedSafeId(raw) ==
    IF raw = <<"A", "/", "B">> \/ raw = <<"A", "_", "B", " ">>
    THEN <<"A", "_", "B">>
    ELSE IF raw = <<" ", "C">> THEN <<"C">>
    ELSE <<>>

\* The raw key of a row of the master and address uploads.
RawKeyOf(record) ==
    IF "seatNo" \in DOMAIN record THEN record.seatNo
    ELSE IF "collegeCode" \in DOMAIN record THEN record.collegeCode
    ELSE <<>>

\* C8: a record whose sanitized key is empty is in no commit and raises no
\* error; every other record is upserted under its sanitized key when the run
\* completes.
C8_EmptyKeyDropped ==
    op \in {"master", "addresses"} =>
        /\ \A c \in {commits[i] : i \in DOMAIN commits} :
              /\ BatchOf(c) # <<>>
              /\ \A j \in 1..Len(BatchOf(c)) :
                    /\ BatchOf(c)[j].id # <<>>
                    /\ BatchOf(c)[j].id = ExpectedSafeId(RawKeyOf(BatchOf(c)[j].data))
        /\ \A k \in DOMAIN store :
              /\ k # <<>>
              /\ k = ExpectedSafeId(RawKeyOf(store[k]))
        /\ (runState = "Failed" => rejected # <<>>)
        /\ (runState = "Completed" =>
              \A i \in DOMAIN records :
                 ExpectedSafeId(RawKeyOf(records[i])) # <<>> =>
                    ExpectedSafeId(RawKeyOf(records[i])) \in DOMAIN store)

\* C8 witness: the keys "A/B", "" and blank; only "A_B" is in the store.
C8_Witness ==
    /\ op = "master"
    /\ Len(records) = 3
    /\ records[1] = [idx |-> 1, seatNo |-> <<"A", "/", "B">>]
    /\ records[2] = [idx |-> 2, seatNo |-> <<>>]
    /\ records[3] = [idx |-> 3, seatNo |-> <<" ", " ">>]
    /\ runState = "Completed"
    /\ DOMAIN store = {<<"A", "_", "B">>}

\* C9: a run over an empty list completes with no sink call and no commit.
C9_EmptyRunSilent ==
    (records = <<>> /\ runState # "Idle") =>
        /\ runState = "Completed"
        /\ chunks = <<>>
        /\ sinkCalls = <<>>
        /\ commits = <<>>

\* C10: processInPool spawns min(concurrencyLimit, number of chunks) workers
\* and never has more units of work in flight than that.
C10_WorkerClamp ==
    (variant = "pool" /\ runState # "Idle") =>
        /\ Len(workers) = Min(CONCURRENCY_LIMIT, Len(chunks))
        /\ Cardinality(InFlight) <= Min(CONCURRENCY_LIMIT, Len(chunks))
        /\ Len(commits) - Cardinality(committed) - Len(rejected)
              <= Min(CONCURRENCY_LIMIT, Len(chunks))

\* C10 witness: fewer chunks than the limit, all of them in flight.
C10_Witness ==
    /\ variant = "pool"
    /\ runState = "Running"
    /\ Len(chunks) >= 1
    /\ Len(chunks) < CONCURRENCY_LIMIT
    /\ Cardinality(InFlight) = Len(chunks)

\* Rows of a chunk that the master and address uploads write: those whose
\* sanitized key, as written out in ExpectedSafeId, is not empty.
EligibleRows(chunk) ==
    {i \in DOMAIN chunk : ExpectedSafeId(RawKeyOf(chunk[i])) # <<>>}

\* Chunks whose processChunk was called and found nothing to commit.
NoOpInvoked ==
    {c \in ChunkIndices : invoked[c] >= 1 /\ EligibleRows(chunks[c]) = {}
                          /\ op \in {"master", "addresses"}}

\* Chunks whose unit of work has resolved successfully.
DoneChunks == committed \cup NoOpInvoked

\* The rows of a set of chunks, counted.
RECURSIVE SumLen(_)
SumLen(S) ==
    IF S = {} THEN 0
    ELSE LET c == CHOOSE x \in S : TRUE
         IN  Len(chunks[c]) + SumLen(S \ {c})

\* C11: a chunk without eligible operations issues no commit, is no error and
\* still advances progress; the master and address uploads never send a
\* commit without operations.
C11_EmptyChunkSkipsCommit ==
    op \in {"master", "addresses"} =>
        /\ \A i \in DOMAIN commits : EligibleRows(chunks[commits[i]]) # {}
        /\ \A i \in DOMAIN rejected : EligibleRows(chunks[rejected[i]]) # {}
        /\ \A c \in ChunkIndices :
              (invoked[c] >= 1 /\ EligibleRows(chunks[c]) # {}) =>
                  \E i \in DOMAIN commits : commits[i] = c
        /\ Len(sinkCalls) >= Cardinality(NoOpInvoked) + Cardinality(committed)
        /\ processedCount >= SumLen(NoOpInvoked)

\* C11 witness: a completed run whose first chunk held no eligible row and
\* whose second chunk was committed.
C11_Witness ==
    /\ op \in {"master", "addresses"}
    /\ runState = "Completed"
    /\ Len(chunks) >= 2
    /\ 1 \in NoOpInvoked
    /\ 2 \in committed
    /\ commits = <<2>>

\* C13: the sink is invoked once for each chunk and only after the chunk's
\* work has resolved: processed never counts a chunk whose commit has not
\* succeeded, and a run that completed made as many sink calls as chunks.
C13_SinkOncePerChunk ==
    /\ Len(sinkCalls) = Cardinality(DoneChunks)
    /\ processedCount <= SumLen(DoneChunks)
    /\ (runState = "Completed" => Len(sinkCalls) = Len(chunks))

\* C14: processed grows by the original length of each chunk whose work
\* succeeded, dropped rows included; a completed run ends with processed =
\* total, and has reported it, whatever was dropped.
C14_ProgressCountsOriginalLength ==
    /\ processedCount = SumLen(DoneChunks)
    /\ (runState = "Completed" =>
          /\ processedCount = Len(records)
          /\ (records # <<>> =>
                sinkCalls[Len(sinkCalls)] = <<Len(records), Len(records)>>))

\* C14 witness: a completed pooled upload that dropped rows of a committed
\* chunk and a whole chunk besides.
C14_Witness ==
    /\ variant = "pool"
    /\ op = "master"
    /\ runState = "Completed"
    /\ NoOpInvoked # {}
    /\ \E c \in committed : Cardinality(EligibleRows(chunks[c])) < Len(chunks[c])
    /\ processedCount = Len(records)

\* C16: chunks are dequeued and started in their original order: whenever a
\* chunk has been started, every chunk before it has been started too, and
\* the queue holds the chunks not yet started, in order.
C16_FifoStart ==
    variant = "pool" =>
        /\ \A i, j \in ChunkIndices : (i < j /\ invoked[j] >= 1) => invoked[i] >= 1
        /\ \A i \in DOMAIN queue : queue[i] = Len(chunks) - Len(queue) + i
        /\ \A i, j \in DOMAIN commits : i < j => commits[i] < commits[j]

\* C16 witness: three chunks started while the second completed before the
\* first.
C16_Witness ==
    /\ variant = "pool"
    /\ Len(chunks) >= 3
    /\ invoked[3] = 1
    /\ 2 \in committed
    /\ 1 \notin committed
    /\ rejected = <<>>

\* C15: a run goes Idle -> Running -> Completed or Failed: it settles once,
\* in one of the two, and never leaves Completed or Failed.  (A run over no
\* chunk passes through Running within the call that starts it.)
C15_RunStateMachine ==
    [][/\ runState' \in {"Idle", "Running", "Completed", "Failed"}
       /\ (runState' # runState =>
             \/ runState = "Idle" /\ runState' = "Running"
             \/ runState = "Running" /\ runState' \in {"Completed", "Failed"}
             \/ runState = "Idle" /\ runState' = "Completed" /\ chunks' = <<>>)]_vars

\* C15 witness: a failed pooled run whose other worker went on and returned.
C15_Witness ==
    /\ PoolQuiescent
    /\ runState = "Failed"
    /\ committed # {}
    /\ \E w \in DOMAIN workers : workers[w].pc = "done"

\* The non-empty sanitized keys of the input rows.
ExpectedIds ==
    {ExpectedSafeId(RawKeyOf(records[i])) : i \in DOMAIN records} \ {<<>>}

\* C17: after a successful master or address upload into an empty collection
\* the store holds exactly one document per distinct non-empty sanitized key
\* of the input, and that document is one of the rows with that key.
C17_OneDocPerKey ==
    (runState = "Completed" /\ op \in {"master", "addresses"}) =>
        /\ DOMAIN store = ExpectedIds
        /\ \A k \in DOMAIN store :
              \E i \in DOMAIN records :
                  /\ ExpectedSafeId(RawKeyOf(records[i])) = k
                  /\ store[k] = records[i]

\* C17 witness: a completed upload of two distinct keys, one of them spelled
\* in two ways, with a blank row among them.
C17_Witness ==
    /\ runState = "Completed"
    /\ op \in {"master", "addresses"}
    /\ Cardinality(DOMAIN store) = 2
    /\ \E i, j \in DOMAIN records :
          /\ RawKeyOf(records[i]) # RawKeyOf(records[j])
          /\ ExpectedSafeId(RawKeyOf(records[i])) = ExpectedSafeId(RawKeyOf(records[j]))
          /\ ExpectedSafeId(RawKeyOf(records[i])) # <<>>
    /\ \E i \in DOMAIN records : ExpectedSafeId(RawKeyOf(records[i])) = <<>>

\* C19: when every commit issued eventually resolves or rejects, every run
\* that was started eventually reaches Completed or Failed.
C19_EveryRunSettles ==
    (runState = "Running") ~> (runState \in {"Completed", "Failed"})

\* C19 witness: a run of several chunks has settled with every commit it
\* issued resolved or rejected, one of them rejected.
C19_Witness ==
    /\ Settled
    /\ Len(chunks) >= 2
    /\ InFlight = {}
    /\ rejected # <<>>
    /\ \A i \in DOMAIN commits :
          commits[i] \in committed \/ \E j \in DOMAIN rejected : rejected[j] = commits[i]

\* C18: every fetch (master records, addresses, archives, students for
\* backup) resolves with the empty list when its read fails and never passes
\* the error to its caller.
C18_EveryFetchSwallows ==
    /\ fetchPc # "thrown"
    /\ (fetchPc = "caught" => fetchResult = <<>>)

\* C18 (amended): the listings of master records, addresses and archives
\* resolve with the empty list when the read fails; the backup fetch of
\* students passes the error to its caller, and a read that succeeds returns
\* every document of the collection.
C18_ListingsSwallowBackupThrows ==
    /\ fetchKind \in {"master", "addresses", "archives"} =>
          /\ fetchPc # "thrown"
          /\ (fetchPc = "caught" => fetchResult = <<>>)
    /\ fetchKind = "backup" => fetchPc # "caught"
    /\ fetchPc = "ok" =>
          {fetchResult[i] : i \in DOMAIN fetchResult} = {store[k] : k \in DOMAIN store}

\* C18 witness: the listing of archives of a non-empty collection failed and
\* returned the empty list.
C18_Witness ==
    /\ fetchKind = "archives"
    /\ fetchPc = "caught"
    /\ fetchResult = <<>>
    /\ DOMAIN store # {}

\* The chunk size the run is configured with.
ConfiguredBatchSize ==
    IF variant = "pool" THEN BATCH_SIZE
    ELSE IF op = "archive" THEN SEQ_DELETE_BATCH_SIZE
    ELSE SEQ_BATCH_SIZE

\* C12: every commit of a batch-write or batch-delete run holds at most
\* BATCH_SIZE operations, the constant of the pooled variant or of the
\* sequential variant.
C12_AtMostVariantBatchSize ==
    \A i \in DOMAIN commits :
        Len(BatchOf(commits[i])) <=
            IF variant = "pool" THEN BATCH_SIZE ELSE SEQ_BATCH_SIZE

\* C12 (amended): every commit holds at most the chunk size its run
\* configures: BATCH_SIZE in the pooled variant, the sequential BATCH_SIZE in
\* the sequential writers and the larger delete size in the sequential
\* archive; a delete run's batch holds one delete per document of its chunk.
C12_AtMostConfiguredBatchSize ==
    \A i \in DOMAIN commits :
        /\ Len(BatchOf(commits[i])) <= ConfiguredBatchSize
        /\ op = "archive" => Len(BatchOf(commits[i])) = Len(chunks[commits[i]])

\* C12 witness: a commit of a full batch has been issued after another, in a
\* delete run.
C12_Witness ==
    /\ op = "archive"
    /\ Len(commits) >= 2
    /\ \E i \in DOMAIN commits : Len(BatchOf(commits[i])) = ConfiguredBatchSize

\* C20: 1,203 records with batch size 500 and concurrency limit 25 make
\* three chunks of 500, 500 and 203 rows and three workers; when every commit
\* has succeeded the last call of the sink reports (1203, 1203), shown as 100%.
C20_Scenario ==
    /\ Len(records) = 1203
    /\ runState # "Idle" =>
          /\ Len(chunks) = 3
          /\ Len(chunks[1]) = 500 /\ Len(chunks[2]) = 500 /\ Len(chunks[3]) = 203
          /\ Len(workers) = 3
    /\ runState = "Completed" =>
          /\ sinkCalls # <<>>
          /\ sinkCalls[Len(sinkCalls)] = <<1203, 1203>>
          /\ pct(sinkCalls[Len(sinkCalls)][1], sinkCalls[Len(sinkCalls)][2]) = 100

\* C20 witness: the run of 1,203 rows has completed with three commits, each
\* resolved.
C20_Witness ==
    /\ Len(records) = 1203
    /\ runState = "Completed"
    /\ committed = {1, 2, 3}
    /\ Len(sinkCalls) = 3

C22_PercentageDefined ==
    \A k \in DOMAIN sinkCalls :
        LET processed == sinkCalls[k][1]
            total == sinkCalls[k][2]
            shown == panelAfter(k).uploadProgress
        IN  IF total = 0
            THEN shown \notin {"NaN", "Infinity"}
            ELSE /\ shown \in 0..100
                 /\ 2 * (100 * processed - shown * total) <= total
                 /\ 2 * (shown * total - 100 * processed) < total

\* C23: once the user has confirmed the loading of an archive as view only,
\* no add, edit-save or delete issues a write while the archive is shown.
C23_ViewOnlyWritesNothing ==
    \A i \in DOMAIN appWrites : ~appWrites[i].viewOnly

\* C27: archiveCurrentSession issues a delete only once the archive is
\* stored; when the write of the archive fails the operation fails and no
\* delete has been issued.
C27_DeleteOnlyAfterArchive ==
    op = "archive" =>
        /\ commits # <<>> => archived
        /\ committed # {} => archived
        /\ archPc \in {"read", "delete", "config"} => archived
        /\ ~archived => runState # "Completed"
        /\ (runState = "Failed" /\ archPc = "save") =>
              ~archived /\ commits = <<>> /\ committed = {}

\* C27 witness: students were deleted, the archive stored before.
C27_Witness ==
    /\ op = "archive"
    /\ archived
    /\ committed # {}
    /\ \E c \in committed : chunks[c] # <<>>

\* C28: every student document archive-and-reset deletes is in the students
\* list of the archive it saved.
C28_DeletedAreArchived ==
    op = "archive" =>
        \A c \in committed : \A i \in DOMAIN chunks[c] :
            \E j \in DOMAIN archiveData : archiveData[j].id = chunks[c][i].ref

\* C29: pooled archive: the archive and the new exam name are stored
\* together or not at all; a failure of the delete is swallowed, so that the
\* operation resolves with the archive saved and the name updated, the
\* students of the failed batch left in the collection.
C29_PooledArchiveSwallowsDelete ==
    (op = "archive" /\ variant = "pool") =>
        /\ archived <=> examName = "new"
        /\ archived => runState # "Failed"
        /\ rejected # <<>> =>
              /\ runState = "Completed"
              /\ archived
              /\ examName = "new"
              /\ \A k \in DOMAIN rejected : \A i \in DOMAIN chunks[rejected[k]] :
                    chunks[rejected[k]][i].ref \in DOMAIN store

\* C29 witness: a delete batch of the pooled archive was rejected and the
\* operation has resolved.
C29_Witness ==
    /\ op = "archive"
    /\ variant = "pool"
    /\ rejected # <<>>
    /\ runState = "Completed"
    /\ archived
    /\ DOMAIN store # {}

\* Sequential variant: the commits issued and not yet settled.
SeqInFlight == {c \in ChunkIndices :
                   /\ \E i \in DOMAIN commits : commits[i] = c
                   /\ c \notin committed
                   /\ \A k \in DOMAIN rejected : rejected[k] # c}

\* Sequential variant: the chunks whose iteration of the loop has begun.
SeqEntered == {c \in ChunkIndices : invoked[c] > 0}

\* Sequential variant: one commit at a time, and nothing after a failure.
SeqOneAtATime ==
    /\ Cardinality(SeqInFlight) <= 1
    /\ \A i, j \in DOMAIN commits : i < j => commits[i] < commits[j]
    /\ rejected # <<>> =>
          /\ Len(rejected) = 1
          /\ runState = "Failed"
          /\ \A c \in ChunkIndices : c > rejected[1] =>
                /\ c \notin committed
                /\ c \notin SeqEntered
                /\ \A i \in DOMAIN commits : commits[i] # c

\* C26 as stated: sequential variant: at most one commit in flight, no chunk
\* after a failed one is committed, and the committed chunks are a prefix of
\* the chunk sequence.
C26_CommittedIsPrefix ==
    (variant = "seq" /\ op \in Ops) =>
        /\ SeqOneAtATime
        /\ committed = 1..Cardinality(committed)

\* C26, amended: sequential variant: at most one commit in flight, no chunk
\* after a failed one is entered or committed; the chunks the loop has
\* entered are a prefix of the chunk sequence, and the committed chunks are
\* the entered ones that hold an operation, less the one in flight or failed.
C26_EnteredIsPrefix ==
    (variant = "seq" /\ op \in Ops) =>
        /\ SeqOneAtATime
        /\ SeqEntered = 1..Cardinality(SeqEntered)
        /\ committed \cup SeqInFlight \cup {rejected[k] : k \in DOMAIN rejected}
              = {c \in SeqEntered : seqCommits(op, chunks[c])}

\* C26 witness: the commit of the second chunk failed after the first was
\* committed, a third chunk waiting.
C26_Witness ==
    /\ variant = "seq"
    /\ op \in Ops
    /\ rejected = <<2>>
    /\ committed = {1}
    /\ Len(chunks) >= 3
    /\ seqCommits(op, chunks[3])

\* The rows of the input with sanitized key k, and the last of them.
RowsWithKey(k) ==
    {i \in DOMAIN records : ExpectedSafeId(RawKeyOf(records[i])) = k}

LastRowWithKey(k) ==
    CHOOSE i \in RowsWithKey(k) : \A j \in RowsWithKey(k) : j <= i

\* C24: pooled variant: of the records with one sanitized key, the one
\* stored after a successful run is the last in input order, whatever the
\* order in which the commits of their chunks complete.
C24_LaterRecordWins ==
    (variant = "pool" /\ runState = "Completed"
        /\ op \in {"master", "addresses"}) =>
        \A k \in DOMAIN store :
            RowsWithKey(k) # {} => store[k] = records[LastRowWithKey(k)]

\* The store the sequential writer leaves for the input: its chunks
\* committed one after the other.
RECURSIVE SeqOutcome(_, _, _)
SeqOutcome(coll, cs, c) ==
    IF c > Len(cs) THEN coll
    ELSE SeqOutcome(applyBatch(coll, seqBatchOps(op, cs[c])), cs, c + 1)

\* The non-empty sanitized keys of the input are pairwise distinct.
DistinctKeys ==
    \A i, j \in DOMAIN records :
        (i # j /\ ExpectedSafeId(RawKeyOf(records[i])) # <<>>) =>
            ExpectedSafeId(RawKeyOf(records[i]))
                # ExpectedSafeId(RawKeyOf(records[j]))

\* C25: for an input whose non-empty sanitized keys are pairwise distinct,
\* the store after a successful pooled run is the store the sequential run
\* of the same input leaves, whatever the interleaving of the commits.
C25_PooledEqualsSequential ==
    (variant = "pool" /\ runState = "Completed"
        /\ op \in {"master", "addresses"} /\ DistinctKeys) =>
        store = SeqOutcome(EmptyColl, chunkArray(records, SEQ_BATCH_SIZE), 1)

\* C25 witness: a pooled run of distinct keys has completed with two
\* documents stored, the short last chunk reported before a full one.
C25_Witness ==
    /\ variant = "pool"
    /\ runState = "Completed"
    /\ op \in {"master", "addresses"}
    /\ DistinctKeys
    /\ Cardinality(DOMAIN store) = 2
    /\ Len(commits) >= 2
    /\ \E i \in DOMAIN sinkCalls : sinkCalls[i][1] < BATCH_SIZE

\* C30: of two overlapping runs each passes its sink processed values that
\* never decrease and never exceed its own total, however the completions of
\* the other run's chunks fall between its own.
C30_OwnCounter ==
    \A r \in DOMAIN dual :
        LET calls == dual[r].sinkCalls
        IN  /\ \A i \in DOMAIN calls :
                  /\ calls[i][2] = Len(dual[r].records)
                  /\ calls[i][1] <= Len(dual[r].records)
            /\ \A i, j \in DOMAIN calls : i < j => calls[i][1] <= calls[j][1]
            /\ dual[r].runState = "Completed" =>
                  dual[r].processedCount = Len(dual[r].records)

\* C30 witness: both runs are under way, each has reported a chunk, and the
\* totals of the two differ.
C30_Witness ==
    /\ dual # <<>>
    /\ \A r \in DOMAIN dual :
          /\ dual[r].runState = "Running"
          /\ dual[r].sinkCalls # <<>>
    /\ Len(dual[1].records) # Len(dual[2].records)

====
